---- MODULE Spec2Model ----
(***************************************************************************)
(* Consent-gated recording coordinator of src/src/Zoom.cpp.                *)
(*                                                                         *)
(* The shared members of class Zoom (participants, consentStatus,          *)
(* recordingStarted) are read and written without any lock by              *)
(*   - the poller threads   (checkConsentStatus, one per startConsentCheck)*)
(*   - the delayed reminder threads (the lambda of startConsentCheck)      *)
(*   - the caller's thread  (startConsentCheck,                            *)
(*                           startRecordingIfAllConsented).                *)
(* Every thread is a small program counter.  One action is one block of    *)
(* code: a loop over a container (the store loop and all_of of             *)
(* onConsentUpdate, the loop of sendConsentReminder) is one step on the    *)
(* containers as it finds them, while clear and re-insert of               *)
(* fetchParticipants, the test of recordingStarted and the call that       *)
(* follows it are separate steps, so that the threads interleave between   *)
(* them.                                                                   *)
(***************************************************************************)
EXTENDS Integers, Sequences, FiniteSets, TLC

\* ---------------------------------------------------------------- bounds
\* Number of distinct participant names the session can show.
NumIds == 2
\* Number of calls to startConsentCheck (each spawns a poller and a timer).
MaxStarts == 2
\* The count of startRawRecording invocations saturates here.
MaxCalls == 2
\* The count of consecutive failed fetches of one poller saturates here.
MaxFails == 3

Ids == 1..NumIds
Threads == 1..MaxStarts

VARIABLES
    participants,      \* Zoom::participants: set of user names
    consentStatus,     \* Zoom::consentStatus: map user name -> bool
    recordingStarted,  \* Zoom::recordingStarted
    pc,                \* position of each poller thread (checkConsentStatus)
    timer,             \* position of each delayed reminder thread
    recCalls,          \* invocations of Zoom::startRawRecording (saturating)
    fails,             \* consecutive failed fetches of each poller (saturating)
    last               \* what the last step did: the call it made and its data

vars == <<participants, consentStatus, recordingStarted, pc, timer,
          recCalls, fails, last>>

\* ------------------------------------------------------------- helpers
Min(S) == CHOOSE x \in S : \A y \in S : x <= y

Inc(n, cap) == IF n < cap THEN n + 1 ELSE cap

\* The record kept in `last`.
\*   op      the call the step made ("none" for a step that calls nothing)
\*   by      the thread that made it: "caller", "poller" or "timer"
\*   users   onConsentUpdate: the poll result it was handed
\*   before  onConsentUpdate: consentStatus as it was when it was called
\*   after   onConsentUpdate: the failed fetches of the poller that preceded it
\*   list    sendConsentReminder: the names the reminder lists
\*   outcome startRawRecording: how the invocation ended
NoEvent ==
    [op |-> "none", by |-> "none", users |-> {}, before |-> <<>>, after |-> 0,
     list |-> <<>>, outcome |-> "none"]

Call(op, by) == [NoEvent EXCEPT !.op = op, !.by = by]

\* The outcomes of one invocation of startRawRecording.
Outcomes == {"started", "denied", "error"}

\* std::map::operator[] : a missing key is inserted with value false.
Subscript(cs, u) ==
    IF u \in DOMAIN cs THEN cs ELSE [v \in DOMAIN cs \cup {u} |-> IF v = u THEN FALSE ELSE cs[v]]

\* The value consentStatus[user] reads.
Lookup(cs, u) == Subscript(cs, u)[u]

\* Iteration order of the container `participants` (ascending keys).
First(S) == Min(S)

\* Lines 393-395: for every user of participants,
\* consentStatus[user] = (user is found in consentingUsers).
StoreLoopBroken(cs, roster, users) ==
    [u \in DOMAIN cs \cup roster |->
        IF u \in roster /\ u \in users THEN TRUE
        ELSE IF u \in DOMAIN cs THEN cs[u] ELSE FALSE]

RECURSIVE StoreLoop(_, _, _)
StoreLoop(cs, todo, users) ==
    IF todo = {} THEN cs
    ELSE LET u == First(todo)
             w == Subscript(cs, u)
         IN StoreLoop([w EXCEPT ![u] = (u \in users)], todo \ {u}, users)

\* Lines 397-399: std::all_of over participants of consentStatus[user].
AllOfParticipantsBroken(cs, roster) == \A u \in DOMAIN cs : cs[u]

AllOfParticipants(cs, roster) == \A u \in roster : Lookup(cs, u)

\* Lines 422-423: std::all_of over the entries of consentStatus.
AllOfEntries(cs) == \A u \in DOMAIN cs : cs[u]

\* Lines 411-416: the names appended to the reminder, in iteration order.
RECURSIVE ReminderLoopBroken(_, _, _)
ReminderLoopBroken(cs, todo, acc) ==
    IF todo = {} THEN acc
    ELSE LET u == First(todo)
         IN ReminderLoopBroken(cs, todo \ {u},
                               IF Lookup(cs, u) THEN Append(acc, u) ELSE acc)

RECURSIVE ReminderLoop(_, _, _)
ReminderLoop(cs, todo, acc) ==
    IF todo = {} THEN acc
    ELSE LET u == First(todo)
         IN ReminderLoop(cs, todo \ {u},
                         IF ~Lookup(cs, u) THEN Append(acc, u) ELSE acc)

\* Lines 412-413: the entries consentStatus[user] inserts while the reminder
\* is built.
RECURSIVE ReminderInserts(_, _)
ReminderInserts(cs, todo) ==
    IF todo = {} THEN cs
    ELSE LET u == First(todo)
         IN ReminderInserts(Subscript(cs, u), todo \ {u})

\* ----------------------------------------------------------------- Init
\* The members after construction: empty containers, recordingStarted false,
\* no thread spawned.
Init ==
    /\ participants = {}
    /\ consentStatus = <<>>
    /\ recordingStarted = FALSE
    /\ pc = [p \in Threads |-> "idle"]
    /\ timer = [t \in Threads |-> "idle"]
    /\ recCalls = 0
    /\ fails = [p \in Threads |-> 0]
    /\ last = NoEvent

\* ------------------------------------------------- the called methods
\* Zoom::startRawRecording, lines 233-294: one invocation, with the outcome
\* the recording controller gives it.  It reads and writes none of
\* participants, consentStatus, recordingStarted.
startRawRecording(by, o) ==
    /\ recCalls' = Inc(recCalls, MaxCalls)
    /\ last' = [Call("startRawRecording", by) EXCEPT !.outcome = o]

\* Zoom::sendConsentReminder, lines 410-418, with sendMessage (345-357)
\* delivering the text or returning early.
sendConsentReminder(by, delivered) ==
    /\ consentStatus' = ReminderInserts(consentStatus, participants)
    /\ last' = [Call(IF delivered THEN "sendMessage" ELSE "sendDropped", by)
                 EXCEPT !.list = ReminderLoop(consentStatus, participants, <<>>)]

\* ------------------------------------------------------ caller's thread
\* Zoom::startConsentCheck, lines 435-444: spawns a delayed reminder thread
\* and a poller thread, whatever was spawned before.
spawn(p) ==
        /\ pc[p] = "idle"
        /\ \A q \in Threads : q < p => pc[q] # "idle"
        /\ pc' = [pc EXCEPT ![p] = "check"]
        /\ timer' = [timer EXCEPT ![p] = "sleep"]
        /\ last' = NoEvent
        /\ UNCHANGED <<participants, consentStatus, recordingStarted, recCalls, fails>>

startConsentCheck == \E p \in Threads : spawn(p)

\* Zoom::startRecordingIfAllConsented, lines 421-431.
startRecordingIfAllConsented ==
    /\ IF AllOfEntries(consentStatus)
       THEN \E o \in Outcomes : startRawRecording("caller", o)
       ELSE /\ last' = Call("waiting", "caller")
            /\ UNCHANGED recCalls
    /\ UNCHANGED <<participants, consentStatus, recordingStarted, pc, timer, fails>>

\* ---------------------------------------------------- the poller thread
\* Line 360: the loop condition, then the sleep of line 362.
LoopConditionBroken(p) ==
    /\ pc[p] = "check"
    /\ pc' = [pc EXCEPT ![p] = "refresh"]
    /\ last' = NoEvent
    /\ UNCHANGED <<participants, consentStatus, recordingStarted, timer, recCalls, fails>>

LoopCondition(p) ==
    /\ pc[p] = "check"
    /\ pc' = [pc EXCEPT ![p] = IF recordingStarted THEN "done" ELSE "refresh"]
    /\ last' = NoEvent
    /\ UNCHANGED <<participants, consentStatus, recordingStarted, timer, recCalls, fails>>

\* Zoom::fetchParticipants, lines 324-331: no controller or no list returns
\* early and leaves participants as it was; otherwise participants.clear().
fetchParticipantsClear(p) ==
    /\ pc[p] = "refresh"
    /\ \E ok \in BOOLEAN :
        IF ok
        THEN /\ participants' = {}
             /\ pc' = [pc EXCEPT ![p] = "rebuild"]
             /\ last' = Call("clear", "poller")
        ELSE /\ UNCHANGED participants
             /\ pc' = [pc EXCEPT ![p] = "fetch"]
             /\ last' = Call("refreshFailed", "poller")
    /\ UNCHANGED <<consentStatus, recordingStarted, timer, recCalls, fails>>

\* Lines 332-341: the names of the session's participants are inserted.
fetchParticipantsInsert(p) ==
    /\ pc[p] = "rebuild"
    /\ \E roster \in SUBSET Ids : participants' = participants \cup roster
    /\ pc' = [pc EXCEPT ![p] = "fetch"]
    /\ last' = NoEvent
    /\ UNCHANGED <<consentStatus, recordingStarted, timer, recCalls, fails>>

\* Lines 366-386 when reader.parse fails: nothing is called, the loop goes on.
fetchFailedFatal(p) ==
    /\ pc[p] = "fetch"
    /\ pc' = [pc EXCEPT ![p] = "done"]
    /\ fails' = [fails EXCEPT ![p] = Inc(fails[p], MaxFails)]
    /\ last' = Call("fetchFailed", "poller")
    /\ UNCHANGED <<participants, consentStatus, recordingStarted, timer, recCalls>>

fetchFailed(p) ==
    /\ pc[p] = "fetch"
    /\ pc' = [pc EXCEPT ![p] = "check"]
    /\ fails' = [fails EXCEPT ![p] = Inc(fails[p], MaxFails)]
    /\ last' = Call("fetchFailed", "poller")
    /\ UNCHANGED <<participants, consentStatus, recordingStarted, timer, recCalls>>

\* Lines 366-385 when the response parses, and Zoom::onConsentUpdate,
\* lines 392-402: the store loop, the all_of, and the assignment of
\* recordingStarted.
onConsentUpdate(p) ==
    /\ pc[p] = "fetch"
    /\ \E users \in SUBSET Ids :
        LET cs == StoreLoop(consentStatus, participants, users)
            allConsented == AllOfParticipants(cs, participants)
        IN /\ consentStatus' = cs
           /\ recordingStarted' = (recordingStarted \/ allConsented)
           /\ pc' = [pc EXCEPT ![p] = IF allConsented THEN "record" ELSE "remind"]
           /\ last' = [Call("onConsentUpdate", "poller")
                         EXCEPT !.users = users, !.before = consentStatus,
                                !.after = fails[p]]
    /\ fails' = [fails EXCEPT ![p] = 0]
    /\ UNCHANGED <<participants, timer, recCalls>>

\* Line 403: startRawRecording().
pollerRecordResets(p) ==
    /\ pc[p] = "record"
    /\ \E o \in Outcomes :
          /\ startRawRecording("poller", o)
          /\ recordingStarted' = (o = "started")
    /\ pc' = [pc EXCEPT ![p] = "check"]
    /\ UNCHANGED <<participants, consentStatus, timer, fails>>

pollerRecord(p) ==
    /\ pc[p] = "record"
    /\ \E o \in Outcomes : startRawRecording("poller", o)
    /\ pc' = [pc EXCEPT ![p] = "check"]
    /\ UNCHANGED <<participants, consentStatus, recordingStarted, timer, fails>>

\* Line 405: sendConsentReminder().
pollerRemind(p) ==
    /\ pc[p] = "remind"
    /\ \E delivered \in BOOLEAN : sendConsentReminder("poller", delivered)
    /\ pc' = [pc EXCEPT ![p] = "check"]
    /\ UNCHANGED <<participants, recordingStarted, timer, recCalls, fails>>

checkConsentStatus(p) ==
    \/ LoopCondition(p)
    \/ fetchParticipantsClear(p)
    \/ fetchParticipantsInsert(p)
    \/ fetchFailed(p)
    \/ onConsentUpdate(p)
    \/ pollerRecord(p)
    \/ pollerRemind(p)

\* ------------------------------------------- the delayed reminder thread
\* Lines 437-438: the sleep is over, recordingStarted is read.
timerWake(t) ==
    /\ timer[t] = "sleep"
    /\ timer' = [timer EXCEPT ![t] = IF recordingStarted THEN "done" ELSE "build"]
    /\ last' = NoEvent
    /\ UNCHANGED <<participants, consentStatus, recordingStarted, pc, recCalls, fails>>

\* Line 439: sendConsentReminder().
timerRemind(t) ==
    /\ timer[t] = "build"
    /\ \E delivered \in BOOLEAN : sendConsentReminder("timer", delivered)
    /\ timer' = [timer EXCEPT ![t] = "done"]
    /\ UNCHANGED <<participants, recordingStarted, pc, recCalls, fails>>

delayedReminder(t) == timerWake(t) \/ timerRemind(t)

\* ----------------------------------------------------------------- Next
Next ==
    \/ startConsentCheck
    \/ startRecordingIfAllConsented
    \/ \E p \in Threads : checkConsentStatus(p)
    \/ \E t \in Threads : delayedReminder(t)

Spec == Init /\ [][Next]_vars

\* The session in which startConsentCheck is called once: one poller thread
\* and one delayed reminder thread, with the caller's thread.
startConsentCheckOnce == spawn(1)

NextSingle ==
    \/ startConsentCheckOnce
    \/ startRecordingIfAllConsented
    \/ checkConsentStatus(1)
    \/ delayedReminder(1)

SpecSingle == Init /\ [][NextSingle]_vars

\* The detached threads are scheduled by the operating system: a thread that
\* can take a step eventually takes it.  The caller's thread is not obliged
\* to call anything.
FairSingle ==
    /\ SpecSingle
    /\ WF_vars(checkConsentStatus(1))
    /\ WF_vars(delayedReminder(1))

\* Zoom::leave and Zoom::clean, lines 172-202: the session is left and the
\* services are destroyed.  Neither reads or writes participants,
\* consentStatus or recordingStarted, and neither signals, joins or cancels
\* the detached threads: the class has no other operation that stops them.
clean ==
    /\ last' = Call("clean", "caller")
    /\ UNCHANGED <<participants, consentStatus, recordingStarted, pc, timer,
                   recCalls, fails>>

\* The session with one startConsentCheck in which the caller may also leave
\* and clean up.
NextStop ==
    \/ NextSingle
    \/ clean

SpecStop == Init /\ [][NextStop]_vars

\* The session with one startConsentCheck and no call of
\* startRecordingIfAllConsented: the poller and the delayed reminder only.
NextPoller ==
    \/ startConsentCheckOnce
    \/ checkConsentStatus(1)
    \/ delayedReminder(1)

SpecPoller == Init /\ [][NextPoller]_vars

\* ================================================================ claims
\* The entry of u in consentStatus exists and is true.
HasTrue(u) == u \in DOMAIN consentStatus /\ consentStatus[u]

\* Every member of the roster now in participants has a true entry.
RosterConsents == \A u \in participants : HasTrue(u)

\* C1: in one session the recording-start side effect (startRawRecording) is
\* invoked at most once, whatever the interleaving of the gate evaluations.
C1_RecordingStartedOnce == recCalls <= 1

\* C2: the all-consented decision of onConsentUpdate is true if and only if
\* the roster is non-empty and every id of the roster has a true entry; an
\* empty roster takes the reminder branch.  (Checked in the session with one
\* poller, where the thread at "record" or "remind" is the one that decided.)
C2_AllConsentedIffNonEmptyAndAllTrue ==
    last.op = "onConsentUpdate" =>
        ((pc[1] = "record") <=> (participants # {} /\ RosterConsents))

\* C3: no gate evaluation (onConsentUpdate or startRecordingIfAllConsented)
\* invokes the recording start while some id of the current roster has no
\* true entry in the store.
C3_UnknownConsentBlocksRecording ==
    last.op = "startRawRecording" => RosterConsents

\* C4: after a roster refresh followed by a consent update, the keys of the
\* consent store are a subset of the roster.
C4_KeysSubsetOfRoster ==
    last.op = "onConsentUpdate" => DOMAIN consentStatus \subseteq participants

\* C5: a participant who left the roster influences no later gate decision
\* and no later reminder: a gate evaluation made while every member of the
\* (non-empty) roster has a true entry does not decide to wait, and a
\* reminder lists members of the roster only.
C5_DepartedParticipantIgnored ==
    /\ last.op = "waiting" => ~(participants # {} /\ RosterConsents)
    /\ last.op \in {"sendMessage", "sendDropped"} =>
            \A i \in 1..Len(last.list) : last.list[i] \in participants

RECURSIVE RosterOrder(_)
RosterOrder(S) ==
    IF S = {} THEN <<>> ELSE <<First(S)>> \o RosterOrder(S \ {First(S)})

NotConsenting(u) == ~HasTrue(u)

\* C7: the list of a reminder holds exactly the ids of the roster that have
\* no true entry in the store, each once, in roster iteration order.
C7_ReminderListsNonConsenting ==
    last.op \in {"sendMessage", "sendDropped"} =>
        last.list = SelectSeq(RosterOrder(participants), NotConsenting)

\* A reminder was built for a roster with a consenting member (left out) and
\* a member without consent (listed).
C7_Witness ==
    /\ last.op = "sendMessage"
    /\ \E u, v \in participants :
          HasTrue(u) /\ ~HasTrue(v) /\ last.list = <<v>>

\* C8: start is idempotent: at most one poller thread and at most one
\* delayed reminder thread are running at any time.
C8_OnePollerOneTimer ==
    /\ Cardinality({p \in Threads : pc[p] \notin {"idle", "done"}}) <= 1
    /\ Cardinality({t \in Threads : timer[t] \in {"sleep", "build"}}) <= 1

\* C9: a failed fetch is not fatal to the poll loop.  The failing cycle
\* leaves the roster's consent store and the recording state unchanged,
\* invokes no recording start and sends no reminder, and the poller is back
\* at its loop condition; a poller leaves the loop only when recording has
\* started.
C9_FetchFailureNotFatal ==
    [][/\ last'.op = "fetchFailed" =>
            /\ consentStatus' = consentStatus
            /\ recordingStarted' = recordingStarted
            /\ recCalls' = recCalls
            /\ \E p \in Threads : pc[p] = "fetch" /\ pc'[p] = "check"
       /\ \A p \in Threads : pc'[p] = "done" => recordingStarted']_vars

\* The third fetch of a poller, after two failed ones, succeeded and its
\* result is in the store.
C9_Witness ==
    /\ last.op = "onConsentUpdate"
    /\ last.after = 2
    /\ \E u \in participants : u \in last.users /\ HasTrue(u)

\* C10: once the recording start has been invoked (by whichever gate path),
\* a poller performs at most the fetch it has in flight: when it next
\* evaluates its loop condition it leaves the loop, and starts no further
\* cycle of fetch and consent update.
C10_PollerStopsAfterStart ==
    [][\A p \in Threads :
          (recCalls > 0 /\ pc[p] = "check" /\ pc'[p] # "check") => pc'[p] = "done"]_vars

\* C11: stopping the coordinator cancels the poller: a poller that evaluates
\* its loop condition after the stop leaves the loop instead of starting a
\* further cycle, and the stop leaves the recording state as it was.
C11_StopCancelsPoller ==
    [][/\ \A p \in Threads :
            (last.op = "clean" /\ pc[p] = "check" /\ pc'[p] # "check")
                => pc'[p] = "done"
       /\ last'.op = "clean" => recordingStarted' = recordingStarted]_vars

\* A step that has just built and handed a reminder to sendMessage.
Reminded == last.op \in {"sendMessage", "sendDropped"}

\* C12: no reminder is broadcast once recordingStarted is true, neither by
\* the delayed reminder thread nor by a poll cycle.
C12_NoReminderAfterStarted == Reminded => ~recordingStarted

\* C13: when the recording start of a poll cycle's gate evaluation fails
\* (StartRawRecording returns an error), the recording state is NotStarted
\* after the evaluation, so that the poller keeps running and a later
\* evaluation tries again.
C13_FailedStartStaysNotStarted ==
    (last.op = "startRawRecording" /\ last.by = "poller" /\ last.outcome = "error")
        => ~recordingStarted

\* C14: Started is terminal: no step sets recordingStarted back to false.
C14_StartedIsTerminal == [][recordingStarted => recordingStarted']_vars

\* The recording state is Started and a recording start has just failed or
\* been denied.
C14_Witness ==
    /\ recordingStarted
    /\ last.op = "startRawRecording"
    /\ last.outcome \in {"error", "denied"}

\* C15: at every invocation of startRawRecording by a gate evaluation the
\* recording state is already Started, on the path of onConsentUpdate and
\* on the path of startRecordingIfAllConsented.
C15_StartedBeforeSideEffect == last.op = "startRawRecording" => recordingStarted

\* C16: a poll cycle whose roster refresh failed is skipped: the next step
\* of that poller takes it back to its loop condition and leaves the consent
\* store and the recording state as they were.
C16_FailedRefreshSkipsCycle ==
    [][\A p \in Threads :
          (last.op = "refreshFailed" /\ pc[p] = "fetch" /\ pc'[p] # "fetch")
              => /\ pc'[p] = "check"
                 /\ consentStatus' = consentStatus
                 /\ recordingStarted' = recordingStarted]_vars

\* C17: when the recording controller denies the start in a poll cycle's
\* gate evaluation, the coordinator does not end as after a successful
\* start: the recording state is not Started.
C17_DeniedIsNotStarted ==
    (last.op = "startRawRecording" /\ last.by = "poller" /\ last.outcome = "denied")
        => ~recordingStarted

\* C18: the accesses to roster and store are serialized: the delayed
\* reminder thread does not build its reminder while a poller is between
\* the clear and the re-insert of fetchParticipants, and building a reminder
\* adds or changes no entry of the consent store.
C18_AccessesSerialized ==
    [][last'.op \in {"sendMessage", "sendDropped"} =>
          /\ consentStatus' = consentStatus
          /\ last'.by = "timer" => \A p \in Threads : pc[p] # "rebuild"]_vars


\* A step in which the environment does not cooperate: the roster refresh or
\* the fetch failed, or a consent update was handed a poll result that does
\* not report every member of a non-empty roster as consenting.
Uncooperative ==
    \/ last.op \in {"refreshFailed", "fetchFailed"}
    \/ /\ last.op = "onConsentUpdate"
       /\ ~(participants # {} /\ participants \subseteq last.users)

\* C19: liveness of the gate.  After start, if from some point on the roster
\* is non-empty, every refresh and every fetch succeeds and every poll result
\* reports all members of the roster as consenting, then startRawRecording is
\* eventually invoked.
C19_GateEventuallyStarts ==
    (<>(pc[1] # "idle") /\ <>[]~Uncooperative) => <>(recCalls > 0)

\* The poller has just invoked startRawRecording for a non-empty roster all
\* of whose members have a true entry.
C19_Witness ==
    /\ last.op = "startRawRecording" /\ last.by = "poller"
    /\ participants # {} /\ RosterConsents

\* C20: with one startConsentCheck and no startRecordingIfAllConsented, the
\* poller invokes startRawRecording at most once, and once it has set
\* recordingStarted it is at the recording start, at its loop condition or
\* out of the loop: it begins no further fetch, consent update or reminder.
C20_SinglePollerStartsOnceAndStops ==
    /\ recCalls <= 1
    /\ recordingStarted => pc[1] \in {"record", "check", "done"}
    /\ recCalls = 1 => (recordingStarted /\ pc[1] \in {"check", "done"})

\* The poller has started the recording once and has left its loop.
C20_Witness == pc[1] = "done" /\ recCalls = 1 /\ recordingStarted

====
